---- MODULE Spec2Model ----
(***************************************************************************)
(* Model of the ID3v2 tag decoder of id3-iced-manager:                     *)
(*   src/src/id3_parser/mod.rs  (AudioMetadata, ParseError, parse_id3)     *)
(*   src/src/id3_parser/imp.rs  (parse_id3_impl)                           *)
(*                                                                         *)
(* One call of parse_id3 is a sequence of steps: the existence check, the  *)
(* tag read, the extraction of the named attributes, one iteration of the  *)
(* custom-field loop per frame, and the return.  The file system entry at  *)
(* the path and the frames the tag reader decodes from it are the inputs.  *)
(*                                                                         *)
(* Text is a sequence of one-character strings, so that the numeric        *)
(* conversions are computed character by character as str::parse does.     *)
(* Frame identifiers and messages are plain strings.                       *)
(***************************************************************************)
EXTENDS Naturals, Integers, Sequences, FiniteSets, TLC

VARIABLES
    pc,            \* position of the current parse_id3 call
    path,          \* the call's argument
    entry,         \* what the file system holds at path during the call
    tag,           \* frames of the tag read at imp.rs:19 (tag.frames())
    metadata,      \* the local `metadata` record of parse_id3_impl
    frame_idx,     \* position of the `for frame in tag.frames()` loop
    result,        \* the value the call returned
    reader_calls,  \* how often id3::Tag::read_from_path ran in this call
    state,         \* the application's State (app.rs:16-24)
    tasks,         \* parse tasks started by Task::perform and not finished
    inbox,         \* the MetadataParsed message of a finished task, not yet handled
    issued,        \* how many parse tasks this run has started
    applied,       \* the task whose result update() handled last (0: none)
    screen,        \* what view() rendered last, Stale after an update
    config_file,   \* the configuration saved on disk (config.json)
    cover_cache    \* the files of the directory id3_iced_manager under temp_dir()

parser_vars == <<pc, path, entry, tag, metadata, frame_idx, result, reader_calls>>

app_vars == <<state, tasks, issued, applied, screen, config_file, cover_cache>>

vars == <<pc, path, entry, tag, metadata, frame_idx, result, reader_calls,
          state, tasks, inbox, issued, applied, screen, config_file, cover_cache>>

-----------------------------------------------------------------------------
(* Bounds of the model *)

\* longest tag, in frames
MaxFrames == 3

-----------------------------------------------------------------------------
(* Option and Result *)

None == [some |-> FALSE]
Some(v) == [some |-> TRUE, val |-> v]

Ok(m) == [ok |-> TRUE, value |-> m]
Err(e) == [ok |-> FALSE, error |-> e]

NoResult == [pending |-> TRUE]

-----------------------------------------------------------------------------
(* mod.rs: the output record and the error type *)

AudioMetadata ==
    [ title |-> None, artist |-> None, album |-> None, year |-> None,
      genre |-> None, track |-> None, disc |-> None, album_artist |-> None,
      composer |-> None, comment |-> None, duration |-> None,
      publisher |-> None, encoder |-> None, language |-> None,
      copyright |-> None, original_artist |-> None, original_album |-> None,
      original_year |-> None, bpm |-> None, isrc |-> None, lyrics |-> None,
      conductor |-> None, remixer |-> None, producer |-> None,
      grouping |-> None, subtitle |-> None, date |-> None,
      cover_art |-> None, cover_art_format |-> None,
      custom_fields |-> <<>> ]

FileNotFound == [variant |-> "FileNotFound"]
InvalidFormat == [variant |-> "InvalidFormat"]
NoId3Tag == [variant |-> "NoId3Tag"]
IoError(detail) == [variant |-> "IoError", detail |-> detail]

-----------------------------------------------------------------------------
(* Frame contents, as the tag reader decodes them (id3::Content) *)

Text(t) == [type |-> "Text", text |-> t]
ExtendedText(d, v) == [type |-> "ExtendedText", description |-> d, value |-> v]
Comment(l, d, t) == [type |-> "Comment", lang |-> l, description |-> d, text |-> t]
Lyrics(l, d, t) == [type |-> "Lyrics", lang |-> l, description |-> d, text |-> t]
Picture(m, pt, d) == [type |-> "Picture", mime_type |-> m, picture_type |-> pt, data |-> d]
Unknown(d) == [type |-> "Unknown", data |-> d]

Frame(id, c) == [id |-> id, content |-> c]

\* frame.content().text(): Some only for the Text variant
content_text(f) ==
    IF f.content.type = "Text" THEN Some(f.content.text) ELSE None

-----------------------------------------------------------------------------
(* Numeric conversions of the text of a frame (Rust's str::parse) *)

Digits == <<"0", "1", "2", "3", "4", "5", "6", "7", "8", "9">>

IsDigit(c) == \E d \in 1..Len(Digits) : Digits[d] = c

DigitVal(c) == (CHOOSE d \in 1..Len(Digits) : Digits[d] = c) - 1

AllDigits(s) == \A i \in 1..Len(s) : IsDigit(s[i])

\* A 32-bit quantity is kept as two 16-bit halves, hi * 2^16 + lo, so that
\* every u32 and every i32 magnitude is representable
U32(hi, lo) == [hi |-> hi, lo |-> lo]

\* checked acc * 10 + d on a u32: None on overflow past 2^32 - 1
MulAdd10(acc, d) ==
    LET lo == acc.lo * 10 + d
        hi == acc.hi * 10 + lo \div 2^16
    IN  IF hi >= 2^16 THEN None ELSE Some(U32(hi, lo % 2^16))

RECURSIVE DigitsValue(_)
\* value of a run of decimal digits as a u32, None on overflow
DigitsValue(s) ==
    IF Len(s) = 0 THEN Some(U32(0, 0))
    ELSE LET front == DigitsValue(SubSeq(s, 1, Len(s) - 1))
         IN  IF front.some THEN MulAdd10(front.val, DigitVal(s[Len(s)])) ELSE None

\* a parse that answers 0 where the text is no number (unwrap_or(0))
ParseU32_or_zero(s) ==
    IF Len(s) = 0 \/ ~AllDigits(s) THEN Some(U32(0, 0)) ELSE DigitsValue(s)

\* s.parse::<u32>(): an optional '+', then one or more digits, no overflow
ParseU32(s) ==
    LET body == IF Len(s) > 0 /\ s[1] = "+" THEN Tail(s) ELSE s
    IN  IF Len(body) = 0 \/ ~AllDigits(body) THEN None ELSE DigitsValue(body)

\* an i32 is a sign and a magnitude
I32(neg, mag) == [neg |-> neg, mag |-> mag]

\* s.parse::<i32>(): an optional sign, then one or more digits, within
\* -2^31 .. 2^31 - 1
ParseI32(s) ==
    LET signed == Len(s) > 0 /\ s[1] \in {"+", "-"}
        body == IF signed THEN Tail(s) ELSE s
        neg == signed /\ s[1] = "-"
        mag == DigitsValue(body)
    IN  IF Len(body) = 0 \/ ~AllDigits(body) \/ ~mag.some THEN None
        ELSE IF neg /\ (mag.val.hi > 2^15 \/ (mag.val.hi = 2^15 /\ mag.val.lo > 0)) THEN None
        ELSE IF ~neg /\ mag.val.hi >= 2^15 THEN None
        ELSE Some(I32(neg /\ mag.val # U32(0, 0), mag.val))

RECURSIVE TrimStartZeros(_)
\* text.trim_start_matches('0')
TrimStartZeros(s) ==
    IF Len(s) > 0 /\ s[1] = "0" THEN TrimStartZeros(Tail(s)) ELSE s

\* the part of s before the first '/' (the first element of splitn(2, '/'))
BeforeSlash(s) ==
    LET cut == {i \in 1..Len(s) : s[i] = "/"}
    IN  IF cut = {} THEN s
        ELSE SubSeq(s, 1, (CHOOSE i \in cut : \A j \in cut : i <= j) - 1)

\* `x as u32` of an i32: the value modulo 2^32 (two's complement)
AsU32(v) ==
    IF ~v.neg THEN v.mag
    ELSE U32((2^16 - 1 - v.mag.hi + (IF v.mag.lo = 0 THEN 1 ELSE 0)) % 2^16,
             (2^16 - v.mag.lo) % 2^16)

-----------------------------------------------------------------------------
(* The accessors of the tag handle (id3::TagLike) used by parse_id3_impl *)

\* tag.get(id): the first frame with that identifier
get(t, id) ==
    LET at == {i \in 1..Len(t) : t[i].id = id}
    IN  IF at = {} THEN None
        ELSE Some(t[CHOOSE i \in at : \A j \in at : i <= j])

\* tag.get(id).and_then(|frame| frame.content().text())
text_of(t, id) ==
    IF get(t, id).some THEN content_text(get(t, id).val) ELSE None

\* Option::and_then with a parser
AndThenParse(o, P(_)) == IF o.some THEN P(o.val) ELSE None

MapOpt(o, F(_)) == IF o.some THEN Some(F(o.val)) ELSE None

\* tag.year(): TYER, leading zeros trimmed, parsed as i32
tag_year(t) == AndThenParse(text_of(t, "TYER"), LAMBDA s : ParseI32(TrimStartZeros(s)))

\* tag.duration(): TLEN parsed as u32
tag_duration(t) == AndThenParse(text_of(t, "TLEN"), ParseU32)

\* tag.track() / tag.disc(): the number before '/' of TRCK / TPOS
tag_track(t) == AndThenParse(text_of(t, "TRCK"), LAMBDA s : ParseU32(BeforeSlash(s)))
tag_disc(t) == AndThenParse(text_of(t, "TPOS"), LAMBDA s : ParseU32(BeforeSlash(s)))

\* tag.comments(): the comment payloads of the frames, in frame order
comments(t) == SelectSeq(t, LAMBDA f : f.content.type = "Comment")

\* tag.pictures(): the picture payloads of the frames, in frame order
pictures(t) == SelectSeq(t, LAMBDA f : f.content.type = "Picture")

\* Iterator::next() on a fresh iterator
next(s) == IF Len(s) = 0 THEN None ELSE Some(s[1])

-----------------------------------------------------------------------------
(* The tag locator: imp.rs:12-32 *)

\* exists() with the check lost: every path passes
exists_unchecked(e) == TRUE

\* exists() written as is_file(): only a regular file passes
exists_is_file(e) == e.kind = "file"

\* path_ref.exists(): true for anything the path resolves to, file or not
exists(e) == e.kind # "missing"

\* id3::Error as the reader reports it
ReadError(kind, description) == [kind |-> kind, description |-> description]

\* e.to_string(): the kind, then the description when there is one
to_string(e) ==
    IF e.description = "" THEN e.kind ELSE e.kind \o ": " \o e.description

\* id3::Tag::read_from_path(path_ref): opens the path and decodes the tag
read_from_path(e) ==
    CASE e.kind = "missing" ->
            Err(ReadError("IO", "No such file or directory (os error 2)"))
      [] e.kind = "dir" ->
            Err(ReadError("IO", "Is a directory (os error 21)"))
      [] e.kind = "file" /\ e.content.type = "untagged" ->
            Err(ReadError("NoTag", "reader does not contain an id3 tag"))
      [] e.kind = "file" /\ e.content.type = "unreadable" ->
            Err(e.content.error)
      [] e.kind = "file" /\ e.content.type = "tagged" ->
            Ok(e.content.frames)

\* the NoTag arm lost: an absent tag reported like any other failure
read_error_without_no_tag_arm(e) == IoError(to_string(e))

\* decode failures reported as InvalidFormat, the kind alone as the detail
read_error_with_invalid_format(e) ==
    IF e.kind = "NoTag" THEN NoId3Tag
    ELSE IF e.kind = "IO" THEN IoError(e.kind)
    ELSE InvalidFormat

\* the Err arms of the match at imp.rs:24-31
read_error_to_parse_error(e) ==
    IF e.kind = "NoTag" THEN NoId3Tag ELSE IoError(to_string(e))

-----------------------------------------------------------------------------
(* The field mapper: imp.rs:34-208 *)

\* the skip list with the artist's identifier forgotten
AlreadyExtracted_without_TPE1 ==
    { "TIT2", "TALB", "TYER", "TDRC", "TCON", "TRCK", "TPE2", "TCOM",
      "COMM", "TPOS", "TPUB", "TENC", "TLAN", "TCOP", "TOPE", "TOAL", "TORY",
      "TBPM", "TSRC", "USLT", "TPE3", "TPE4", "TPRO", "TIT1", "TIT3", "TDAT",
      "APIC" }

\* the identifiers the custom-field loop skips (matches! at imp.rs:198)
AlreadyExtracted ==
    { "TIT2", "TPE1", "TALB", "TYER", "TDRC", "TCON", "TRCK", "TPE2", "TCOM",
      "COMM", "TPOS", "TPUB", "TENC", "TLAN", "TCOP", "TOPE", "TOAL", "TORY",
      "TBPM", "TSRC", "USLT", "TPE3", "TPE4", "TPRO", "TIT1", "TIT3", "TDAT",
      "APIC" }

\* the identifiers the named attributes are read from (imp.rs:36-192):
\* title TIT2, duration TLEN, artist TPE1, album TALB, year TYER, genre TCON,
\* track TRCK, album artist TPE2, disc TPOS, comment COMM, cover art APIC,
\* and the identifiers looked up by name
NamedAttributeSources ==
    { "TIT2", "TLEN", "TPE1", "TALB", "TYER", "TCON", "TRCK", "TPE2", "TCOM",
      "COMM", "TPOS", "TPUB", "TENC", "TLAN", "TCOP", "TOPE", "TOAL", "TORY",
      "TBPM", "TSRC", "USLT", "TPE3", "TPE4", "TPRO", "TIT1", "TIT3", "TDAT",
      "APIC" }

\* the last comment frame instead of the first
last_comment(t) ==
    IF Len(comments(t)) = 0 THEN None ELSE Some(comments(t)[Len(comments(t))])

\* the first comment frame (imp.rs:82): tag.comments().next()
first_comment(t) == next(comments(t))

\* the last picture frame instead of the first
last_picture(t) ==
    IF Len(pictures(t)) = 0 THEN None ELSE Some(pictures(t)[Len(pictures(t))])

\* the first picture frame (imp.rs:185): tag.pictures().next()
first_picture(t) == next(pictures(t))

\* imp.rs:34-192: a default record, then every named attribute in turn
extract_named(t) ==
    [ AudioMetadata EXCEPT
        !.title = text_of(t, "TIT2"),
        !.duration = tag_duration(t),
        !.artist = text_of(t, "TPE1"),
        !.album = text_of(t, "TALB"),
        !.year = MapOpt(tag_year(t), AsU32),
        !.genre = text_of(t, "TCON"),
        !.track = tag_track(t),
        !.album_artist = text_of(t, "TPE2"),
        !.composer = text_of(t, "TCOM"),
        !.comment = MapOpt(first_comment(t), LAMBDA f : f.content.text),
        !.disc = tag_disc(t),
        !.publisher = text_of(t, "TPUB"),
        !.encoder = text_of(t, "TENC"),
        !.language = text_of(t, "TLAN"),
        !.copyright = text_of(t, "TCOP"),
        !.original_artist = text_of(t, "TOPE"),
        !.original_album = text_of(t, "TOAL"),
        !.original_year = AndThenParse(text_of(t, "TORY"), ParseU32),
        !.bpm = AndThenParse(text_of(t, "TBPM"), ParseU32),
        !.isrc = text_of(t, "TSRC"),
        !.lyrics = text_of(t, "USLT"),
        !.conductor = text_of(t, "TPE3"),
        !.remixer = text_of(t, "TPE4"),
        !.producer = text_of(t, "TPRO"),
        !.grouping = text_of(t, "TIT1"),
        !.subtitle = text_of(t, "TIT3"),
        !.date = text_of(t, "TDAT"),
        !.cover_art = MapOpt(first_picture(t), LAMBDA f : f.content.data),
        !.cover_art_format = MapOpt(first_picture(t), LAMBDA f : f.content.mime_type) ]

\* the skip test of the custom-field loop (imp.rs:198)
is_custom(frame) == frame.id \notin AlreadyExtracted

\* the loop with an emptiness test on the text
custom_entries_non_empty(frame) ==
    IF is_custom(frame) /\ content_text(frame).some /\ content_text(frame).val # <<>>
    THEN << <<frame.id, content_text(frame).val>> >>
    ELSE <<>>

\* imp.rs:199-201: what one frame adds to custom_fields
custom_entries(frame) ==
    IF is_custom(frame) /\ content_text(frame).some
    THEN << <<frame.id, content_text(frame).val>> >>
    ELSE <<>>

RECURSIVE custom_fields_upto(_, _)
\* imp.rs:195-203: custom_fields after the loop has passed the first n frames
custom_fields_upto(t, n) ==
    IF n = 0 THEN <<>>
    ELSE custom_fields_upto(t, n - 1) \o custom_entries(t[n])

\* imp.rs:34-208: the record the mapper builds from a tag
record_of(t) ==
    [extract_named(t) EXCEPT !.custom_fields = custom_fields_upto(t, Len(t))]

\* a loop that looks for one frame more than the tag holds
frames_exhausted_one_late(i, t) == i > Len(t) + 1

\* imp.rs:195: the iterator of `for frame in tag.frames()` has no next frame
frames_exhausted(i, t) == i > Len(t)

\* a record without any attribute treated as a format error
return_value_rejecting_empty(m) ==
    IF m = AudioMetadata THEN Err(InvalidFormat) ELSE Ok(m)

\* imp.rs:208
return_value(m) == Ok(m)

-----------------------------------------------------------------------------
(* mod.rs:61-70 and app.rs: the application state, update() and view() *)

\* Display with the messages of the two tag errors exchanged
fmt_swapped(e) ==
    CASE e.variant = "FileNotFound" -> "File not found"
      [] e.variant = "InvalidFormat" -> "No ID3 tag found in file"
      [] e.variant = "NoId3Tag" -> "Invalid audio format"
      [] e.variant = "IoError" -> "IO error: " \o e.detail

\* mod.rs:61-70: impl Display for ParseError (e.to_string())
fmt(e) ==
    CASE e.variant = "FileNotFound" -> "File not found"
      [] e.variant = "InvalidFormat" -> "Invalid audio format"
      [] e.variant = "NoId3Tag" -> "No ID3 tag found in file"
      [] e.variant = "IoError" -> "IO error: " \o e.detail

\* config.rs:39-47: AppConfig::default(); zoom is kept in tenths (1.0 is 10)
DefaultZoom == 10

DefaultConfig == [theme |-> "Dark", zoom |-> DefaultZoom, recent_files |-> <<>>]

\* app.rs:26-42: State::new() on a loaded configuration
State_new(config) ==
    [ file_path |-> None, metadata |-> None, error |-> None,
      recent_files |-> config.recent_files, theme |-> config.theme,
      zoom |-> config.zoom, settings_open |-> FALSE ]

\* app.rs:126-141: update() on Message::MetadataParsed(result)
on_MetadataParsed(s, r) ==
    IF r.ok
    THEN [s EXCEPT !.metadata = Some(r.value), !.error = None]
    ELSE [s EXCEPT !.error = Some(fmt(r.error)), !.metadata = None]

\* u32 / 10 and u32 % 10 on the two halves
DivMod10(v) ==
    LET mid == (v.hi % 10) * 2^16 + v.lo
    IN  [quot |-> U32(v.hi \div 10, mid \div 10), rem |-> mid % 10]

RECURSIVE DecimalDigits(_)
DecimalDigits(v) ==
    IF v = U32(0, 0) THEN <<>>
    ELSE DecimalDigits(DivMod10(v).quot) \o <<Digits[DivMod10(v).rem + 1]>>

\* u32::to_string()
u32_to_string(v) == IF v = U32(0, 0) THEN <<"0">> ELSE DecimalDigits(v)

\* app.rs:695-724: a row of the metadata table
create_row(label, value) == <<label, value>>

\* a field shown whenever it is Some, the empty string included
add_string_field_showing_empty(rows, label, value) ==
    IF value.some THEN Append(rows, create_row(label, value.val)) ELSE rows

\* app.rs:726-737
add_string_field(rows, label, value) ==
    IF value.some
    THEN IF value.val # <<>> THEN Append(rows, create_row(label, value.val)) ELSE rows
    ELSE rows

\* app.rs:740-746
add_numeric_field(rows, label, value) ==
    IF value.some THEN Append(rows, create_row(label, u32_to_string(value.val))) ELSE rows

\* app.rs:553-579: the fields in the order they are added, each with the
\* helper that adds it
FieldRows ==
    << <<"Title:", "string", "title">>, <<"Duration:", "numeric", "duration">>,
       <<"Artist:", "string", "artist">>, <<"Album:", "string", "album">>,
       <<"Album Artist:", "string", "album_artist">>,
       <<"Composer:", "string", "composer">>, <<"Genre:", "string", "genre">>,
       <<"Year:", "numeric", "year">>, <<"Track:", "numeric", "track">>,
       <<"Comment:", "string", "comment">>, <<"Disc:", "numeric", "disc">>,
       <<"Publisher:", "string", "publisher">>, <<"Encoder:", "string", "encoder">>,
       <<"Language:", "string", "language">>, <<"Copyright:", "string", "copyright">>,
       <<"Original Artist:", "string", "original_artist">>,
       <<"Original Album:", "string", "original_album">>,
       <<"Original Year:", "numeric", "original_year">>,
       <<"BPM:", "numeric", "bpm">>, <<"ISRC:", "string", "isrc">>,
       <<"Conductor:", "string", "conductor">>, <<"Remixer:", "string", "remixer">>,
       <<"Producer:", "string", "producer">>, <<"Grouping:", "string", "grouping">>,
       <<"Subtitle:", "string", "subtitle">>, <<"Date:", "string", "date">> >>

RECURSIVE field_rows_upto(_, _)
\* app.rs:553-579: metadata_rows after the first n fields
field_rows_upto(m, n) ==
    IF n = 0 THEN <<>>
    ELSE LET f == FieldRows[n]
         IN  IF f[2] = "string"
             THEN add_string_field(field_rows_upto(m, n - 1), f[1], m[f[3]])
             ELSE add_numeric_field(field_rows_upto(m, n - 1), f[1], m[f[3]])

\* app.rs:582-591: lyrics, cut after 200 bytes
lyrics_rows(m) ==
    IF m.lyrics.some /\ m.lyrics.val # <<>>
    THEN << create_row("Lyrics:",
               IF Len(m.lyrics.val) > 200
               THEN SubSeq(m.lyrics.val, 1, 200) \o <<".", ".", ".">>
               ELSE m.lyrics.val) >>
    ELSE <<>>

RECURSIVE custom_rows_upto(_, _)
\* app.rs:594-599: the custom fields with a non-empty value
custom_rows_upto(fields, n) ==
    IF n = 0 THEN <<>>
    ELSE custom_rows_upto(fields, n - 1) \o
         (IF fields[n][2] # <<>>
          THEN << create_row(fields[n][1] \o ":", fields[n][2]) >>
          ELSE <<>>)

\* an extension table without the png arm
determine_image_extension_always_jpg(format) == "jpg"

\* app.rs:748-757
determine_image_extension(format) ==
    IF format.some /\ format.val \in {"image/jpeg", "image/jpg"} THEN "jpg"
    ELSE IF format.some /\ format.val = "image/png" THEN "png"
    ELSE IF format.some /\ format.val = "image/gif" THEN "gif"
    ELSE IF format.some /\ format.val = "image/webp" THEN "webp"
    ELSE "jpg"

\* app.rs:544-692: build_metadata_view: the rows of the table, and the
\* extension of the cover file when the record has cover art
build_metadata_view(m) ==
    [ rows |-> field_rows_upto(m, Len(FieldRows)) \o lyrics_rows(m)
                 \o custom_rows_upto(m.custom_fields, Len(m.custom_fields)),
      cover |-> IF m.cover_art.some
                THEN Some([extension |-> determine_image_extension(m.cover_art_format)])
                ELSE None ]

\* app.rs:170-318: view(): the recent files, the error when there is one,
\* the metadata when there is one, the settings overlay when it is open
view_of(s) ==
    [ file_path |-> s.file_path,
      recent_files |-> s.recent_files,
      error |-> s.error,
      metadata |-> IF s.metadata.some
                   THEN Some(build_metadata_view(s.metadata.val))
                   ELSE None,
      settings |-> s.settings_open ]

\* app.rs:773: SystemTime::now() in seconds since the epoch, at two
\* consecutive seconds
Clock == {U32(25939, 61696), U32(25939, 61697)}

\* app.rs:790-791: the characters sanitize_filename keeps
FilenameChars ==
    { "a", "b", "c", "d", "e", "f", "g", "h", "i", "j", "k", "l", "m",
      "n", "o", "p", "q", "r", "s", "t", "u", "v", "w", "x", "y", "z",
      "A", "B", "C", "D", "E", "F", "G", "H", "I", "J", "K", "L", "M",
      "N", "O", "P", "Q", "R", "S", "T", "U", "V", "W", "X", "Y", "Z",
      "0", "1", "2", "3", "4", "5", "6", "7", "8", "9", "-", "_" }

\* app.rs:787-797: sanitize_filename: every other character becomes an
\* underscore, and the underscores at both ends are trimmed
sanitize_filename(name) ==
    LET mapped == [i \in 1..Len(name) |->
                     IF name[i] \in FilenameChars THEN name[i] ELSE "_"]
        kept == {i \in 1..Len(name) : mapped[i] # "_"}
    IN  IF kept = {} THEN <<>>
        ELSE SubSeq(mapped,
                    CHOOSE i \in kept : \A j \in kept : i <= j,
                    CHOOSE i \in kept : \A j \in kept : j <= i)

\* app.rs:762, 776-777: DefaultHasher::new(), identifier.hash(), finish():
\* a function of the identifier alone, taken here without collisions
DefaultHasher(identifier) == [hash_of |-> identifier]

\* app.rs:765-774: the identifier a cover file is named after: title and
\* artist, or the one there is, or the seconds since the epoch
cover_identifier(m, now) ==
    IF m.title.some /\ m.artist.some
    THEN sanitize_filename(m.title.val) \o <<"_">> \o sanitize_filename(m.artist.val)
    ELSE IF m.title.some THEN sanitize_filename(m.title.val)
    ELSE IF m.artist.some THEN sanitize_filename(m.artist.val)
    ELSE <<"c", "o", "v", "e", "r", "_">> \o u32_to_string(now)

\* app.rs:759-784: generate_cover_filename: the first 50 characters of the
\* identifier, "_", the hash in hexadecimal, ".jpg"
generate_cover_filename(m, now) ==
    LET identifier == cover_identifier(m, now)
    IN  [ stem |-> SubSeq(identifier, 1, IF Len(identifier) < 50 THEN Len(identifier) ELSE 50),
          hash |-> DefaultHasher(identifier),
          suffix |-> ".jpg" ]

\* app.rs:612-617: temp_dir().join("id3_iced_manager").join(filename), where
\* filename is format!("{}.{}", filename_base, extension)
cover_path(m, now) ==
    [ dir |-> "id3_iced_manager",
      base |-> generate_cover_filename(m, now),
      extension |-> determine_image_extension(m.cover_art_format) ]

\* temp_path.exists()
cover_file_exists(cache, p) == \E f \in cache : f.path = p

\* the bytes of the file at a path of the cache
cover_file_bytes(cache, p) == (CHOOSE f \in cache : f.path = p).bytes

\* app.rs:640-668: what File::create and write_all can do: the file is
\* written, or it cannot be created, or it is created and the write fails
WriteOutcomes == {"written", "create_failed", "write_failed"}

\* app.rs:611-671: cover_display: the image of the file at the cover path:
\* the file that is there already, or else the file just written; the
\* default cover (None) without cover art or when the file cannot be written
cover_display(m, cache, now, outcome) ==
    IF ~m.cover_art.some THEN None
    ELSE LET p == cover_path(m, now)
         IN  IF cover_file_exists(cache, p)
             THEN Some([path |-> p, bytes |-> cover_file_bytes(cache, p)])
             ELSE IF outcome = "written"
                  THEN Some([path |-> p, bytes |-> m.cover_art.val])
                  ELSE None

\* app.rs:631-668: the cache directory after cover_display: a file that
\* exists is left as it is; a new file holds the cover art, or nothing
\* when the write failed after the file was created
cover_cache_after(m, cache, now, outcome) ==
    IF ~m.cover_art.some THEN cache
    ELSE LET p == cover_path(m, now)
         IN  IF cover_file_exists(cache, p) THEN cache
             ELSE IF outcome = "written"
                  THEN cache \cup {[path |-> p, bytes |-> m.cover_art.val]}
                  ELSE IF outcome = "write_failed"
                       THEN cache \cup {[path |-> p, bytes |-> <<>>]}
                       ELSE cache

\* app.rs:610-671: the cover image view() puts on display at a time of the
\* clock, on a cache directory
cover_image(s, cache, now, outcome) ==
    IF s.metadata.some
    THEN cover_display(s.metadata.val, cache, now, outcome)
    ELSE None

\* app.rs:170-318 with 610-671: what view_of gives, with the cover image
view_at(s, cache, now, outcome) ==
    view_of(s) @@ [cover_image |-> cover_image(s, cache, now, outcome)]

\* the cache directory after view()
view_cache(s, cache, now, outcome) ==
    IF s.metadata.some
    THEN cover_cache_after(s.metadata.val, cache, now, outcome)
    ELSE cache

\* app.rs:773: the clock is read only for cover art without title and
\* artist; any other view() takes no reading
clock_readings(s) ==
    IF /\ s.metadata.some
       /\ s.metadata.val.cover_art.some
       /\ ~s.metadata.val.title.some
       /\ ~s.metadata.val.artist.some
    THEN Clock
    ELSE {None}

\* app.rs:631-641: a file is created only for cover art whose file is not
\* there yet; any other view() writes nothing
write_attempts(s, cache, now) ==
    IF /\ s.metadata.some
       /\ s.metadata.val.cover_art.some
       /\ ~cover_file_exists(cache, cover_path(s.metadata.val, now))
    THEN WriteOutcomes
    ELSE {"none"}

\* view() of a state without metadata: no cover is on display
first_view(s) == view_of(s) @@ [cover_image |-> None]

\* config.rs:69-116, 174-182: load_config() and load_recent_files() on a
\* configuration whose recent files all exist: the stored list as it is,
\* whatever its length
load_config(file) == file

\* app.rs:66: the length the recent-files list is cut to
MaxRecentFiles == 5

\* the list cut only when it is longer than one more than the maximum
add_to_recent_files_late_cut(files, p) ==
    LET front == <<p>> \o SelectSeq(files, LAMBDA q : q # p)
    IN  IF Len(front) > MaxRecentFiles + 1
        THEN SubSeq(front, 1, MaxRecentFiles)
        ELSE front

\* the path put in front without removing its earlier occurrence
add_to_recent_files_keeping_duplicates(files, p) ==
    LET front == <<p>> \o files
    IN  IF Len(front) > MaxRecentFiles
        THEN SubSeq(front, 1, MaxRecentFiles)
        ELSE front

\* app.rs:58-72: State::add_to_recent_files (the list it leaves)
add_to_recent_files(files, p) ==
    LET front == <<p>> \o SelectSeq(files, LAMBDA q : q # p)
    IN  IF Len(front) > MaxRecentFiles
        THEN SubSeq(front, 1, MaxRecentFiles)
        ELSE front

\* app.rs:74-78: State::remove_from_recent_files (the list it leaves)
remove_from_recent_files(files, p) == SelectSeq(files, LAMBDA q : q # p)

\* config.rs:185-195: save_recent_files: the stored configuration with the
\* list replaced
save_recent_files(file, files) == [load_config(file) EXCEPT !.recent_files = files]

\* app.rs:50-56: State::save_settings
save_settings(file, s) == [load_config(file) EXCEPT !.theme = s.theme, !.zoom = s.zoom]

\* app.rs:153, 160: the zoom range, in tenths
MinZoom == 5
MaxZoom == 20

\* app.rs:100-110 and 112-119: a file is chosen: it becomes the current
\* file and the head of the recent files, the error is cleared
on_file_chosen(s, p) ==
    [s EXCEPT !.file_path = Some(p),
              !.recent_files = add_to_recent_files(@, p),
              !.error = None]

\* the error is shown and the path stays in the list
on_recent_file_gone_keeping_path(s, p) ==
    [s EXCEPT !.error = Some("File no longer exists")]

\* app.rs:120-124: a recent file that is gone
on_recent_file_gone(s, p) ==
    [s EXCEPT !.error = Some("File no longer exists"),
              !.recent_files = remove_from_recent_files(@, p)]

\* imp.rs:7-209: the value a whole call returns for what it finds at the path
parse_id3_impl(e) ==
    IF ~exists(e) THEN Err(FileNotFound)
    ELSE IF read_from_path(e).ok
         THEN return_value(record_of(read_from_path(e).value))
         ELSE Err(read_error_to_parse_error(read_from_path(e).error))

\* the screen between an update and the next call of view()
Stale == [stale |-> TRUE]

-----------------------------------------------------------------------------
(* Inputs: paths, and what the tag reader can find at a path *)

Paths == {"song.mp3", "other.mp3"}

\* frames as the reader decodes them: the content variant follows the
\* identifier (T*** text, TXXX user text, COMM comment, APIC picture, other
\* identifiers undecoded)
FrameUniverse ==
    { Frame("TIT2", Text(<<"S", "o", "n", "g">>)),
      Frame("TPE1", Text(<<"A", "r", "t", "i", "s", "t">>)),
      Frame("TCOM", Text(<<"B", "a", "c", "h">>)),
      Frame("TLEN", Text(<<"5", "0", "0", "0">>)),
      Frame("TBPM", Text(<<"f", "a", "s", "t">>)),
      Frame("TKEY", Text(<<"A", "m">>)),
      Frame("TKEY", Text(<<>>)),
      Frame("TXXX", ExtendedText(<<>>, <<"H", "e", "l", "l", "o">>)),
      Frame("COMM", Comment("eng", <<>>, <<"o", "n", "e">>)),
      Frame("COMM", Comment("spa", <<"n">>, <<"t", "w", "o">>)),
      Frame("APIC", Picture("image/png", "CoverFront", <<137, 80>>)),
      Frame("APIC", Picture("image/jpeg", "CoverBack", <<255, 216>>)),
      Frame("PRIV", Unknown(<<1, 2>>)) }

Tags == UNION {[1..n -> FrameUniverse] : n \in 0..MaxFrames}

\* failures of the reader other than "no tag"
ReadFailures ==
    { ReadError("IO", "Permission denied (os error 13)"),
      ReadError("Parsing", "Insufficient data to decode bytes"),
      ReadError("UnsupportedFeature", "") }

Entries ==
    { [kind |-> "missing"], [kind |-> "dir"],
      [kind |-> "file", content |-> [type |-> "untagged"]] }
    \cup { [kind |-> "file", content |-> [type |-> "unreadable", error |-> e]] :
             e \in ReadFailures }
    \cup { [kind |-> "file", content |-> [type |-> "tagged", frames |-> t]] :
             t \in Tags }

\* the identifiers looked up by name with tag.get(id) (imp.rs:76-180), with
\* the attribute each one fills
ExplicitLookups ==
    << <<"TCOM", "composer">>, <<"TPUB", "publisher">>, <<"TENC", "encoder">>,
       <<"TLAN", "language">>, <<"TCOP", "copyright">>,
       <<"TOPE", "original_artist">>, <<"TOAL", "original_album">>,
       <<"TORY", "original_year">>, <<"TBPM", "bpm">>, <<"TSRC", "isrc">>,
       <<"USLT", "lyrics">>, <<"TPE3", "conductor">>, <<"TPE4", "remixer">>,
       <<"TPRO", "producer">>, <<"TIT1", "grouping">>, <<"TIT3", "subtitle">>,
       <<"TDAT", "date">> >>

ExplicitIds == {ExplicitLookups[i][1] : i \in 1..Len(ExplicitLookups)}

\* the longest tag of the lookup inputs
MaxLookupFrames == 2

\* two frames with different payloads for every identifier looked up by
\* name (USLT decodes as lyrics, the others as text), and one frame that is
\* looked up nowhere
LookupUniverse ==
    { Frame("TCOM", Text(<<"B", "a", "c", "h">>)),
      Frame("TCOM", Text(<<>>)),
      Frame("TPUB", Text(<<"E", "M", "I">>)),
      Frame("TPUB", Text(<<"D", "G">>)),
      Frame("TENC", Text(<<"l", "a", "m", "e">>)),
      Frame("TENC", Text(<<"f", "l", "a", "c">>)),
      Frame("TLAN", Text(<<"e", "n", "g">>)),
      Frame("TLAN", Text(<<"s", "p", "a">>)),
      Frame("TCOP", Text(<<"2", "0", "2", "0", " ", "X">>)),
      Frame("TCOP", Text(<<"Y">>)),
      Frame("TOPE", Text(<<"A", "b", "b", "a">>)),
      Frame("TOPE", Text(<<"L", "i", "s", "z", "t">>)),
      Frame("TOAL", Text(<<"O", "n", "e">>)),
      Frame("TOAL", Text(<<"T", "w", "o">>)),
      Frame("TORY", Text(<<"1", "9", "9", "9">>)),
      Frame("TORY", Text(<<"'", "9", "9">>)),
      Frame("TBPM", Text(<<"1", "2", "0">>)),
      Frame("TBPM", Text(<<"f", "a", "s", "t">>)),
      Frame("TBPM", Text(<<"4", "2", "9", "4", "9", "6", "7", "2", "9", "6">>)),
      Frame("TSRC", Text(<<"U", "S", "1">>)),
      Frame("TSRC", Text(<<"G", "B", "2">>)),
      Frame("USLT", Lyrics("eng", <<>>, <<"l", "a", " ", "l", "a">>)),
      Frame("USLT", Lyrics("spa", <<>>, <<"o", "l", "e">>)),
      Frame("TPE3", Text(<<"S", "o", "l", "t", "i">>)),
      Frame("TPE3", Text(<<"B", "o", "h", "m">>)),
      Frame("TPE4", Text(<<"D", "J">>)),
      Frame("TPE4", Text(<<"M", "C">>)),
      Frame("TPRO", Text(<<"P", "1">>)),
      Frame("TPRO", Text(<<"P", "2">>)),
      Frame("TIT1", Text(<<"G", "1">>)),
      Frame("TIT1", Text(<<"G", "2">>)),
      Frame("TIT3", Text(<<"L", "i", "v", "e">>)),
      Frame("TIT3", Text(<<"D", "e", "m", "o">>)),
      Frame("TDAT", Text(<<"0", "1", "0", "2">>)),
      Frame("TDAT", Text(<<"3", "1", "1", "2">>)),
      Frame("TKEY", Text(<<"A", "m">>)) }

LookupTags == UNION {[1..n -> LookupUniverse] : n \in 0..MaxLookupFrames}

LookupEntries ==
    { [kind |-> "file", content |-> [type |-> "untagged"]] }
    \cup { [kind |-> "file", content |-> [type |-> "tagged", frames |-> t]] :
             t \in LookupTags }

\* the longest tag of the termination inputs
MaxWalkFrames == 3

\* two frames the mapper names, one it takes as a custom field, one it
\* drops
WalkUniverse ==
    { Frame("TIT2", Text(<<"S", "o", "n", "g">>)),
      Frame("APIC", Picture("image/png", "CoverFront", <<137, 80>>)),
      Frame("TKEY", Text(<<"A", "m">>)),
      Frame("PRIV", Unknown(<<1, 2>>)) }

WalkTags == UNION {[1..n -> WalkUniverse] : n \in 0..MaxWalkFrames}

\* every kind of thing a path resolves to
WalkEntries ==
    { [kind |-> "missing"], [kind |-> "dir"],
      [kind |-> "file", content |-> [type |-> "untagged"]] }
    \cup { [kind |-> "file", content |-> [type |-> "unreadable", error |-> e]] :
             e \in ReadFailures }
    \cup { [kind |-> "file", content |-> [type |-> "tagged", frames |-> t]] :
             t \in WalkTags }

\* the longest tag of the cover inputs
MaxCoverFrames == 2

\* the MIME types a picture frame can declare: those the view knows, and
\* others
MimeTypes ==
    { "image/jpeg", "image/jpg", "image/png", "image/gif", "image/webp",
      "image/bmp", "image/PNG", "" }

\* one picture frame for every MIME type, and a title
CoverUniverse ==
    { Frame("APIC", Picture(m, "CoverFront", <<7, 7>>)) : m \in MimeTypes }
    \cup { Frame("TIT2", Text(<<"S", "o", "n", "g">>)) }

CoverTags == UNION {[1..n -> CoverUniverse] : n \in 0..MaxCoverFrames}

CoverEntries ==
    { [kind |-> "missing"] }
    \cup { [kind |-> "file", content |-> [type |-> "tagged", frames |-> t]] :
             t \in CoverTags }

\* the longest tag of the numeric inputs
MaxNumericFrames == 2

\* the frames behind the numeric accessors: years with and without a sign
\* and leading zeros, track and disc with and without a total, durations
\* within and beyond 32 bits
NumericUniverse ==
    { Frame("TYER", Text(<<"1", "9", "9", "9">>)),
      Frame("TYER", Text(<<"-", "5">>)),
      Frame("TYER", Text(<<"0", "0", "9", "9">>)),
      Frame("TRCK", Text(<<"3", "/", "1", "2">>)),
      Frame("TRCK", Text(<<"4", "2", "9", "4", "9", "6", "7", "2", "9", "5">>)),
      Frame("TPOS", Text(<<"1", "/", "2">>)),
      Frame("TLEN", Text(<<"5", "0", "0", "0">>)),
      Frame("TLEN", Text(<<"4", "2", "9", "4", "9", "6", "7", "2", "9", "6">>)) }

NumericTags == UNION {[1..n -> NumericUniverse] : n \in 0..MaxNumericFrames}

NumericEntries ==
    { [kind |-> "missing"] }
    \cup { [kind |-> "file", content |-> [type |-> "tagged", frames |-> t]] :
             t \in NumericTags }

-----------------------------------------------------------------------------
(* parse_id3 / parse_id3_impl, step by step *)

Init ==
    /\ pc = "idle"
    /\ path = ""
    /\ entry = [kind |-> "missing"]
    /\ tag = <<>>
    /\ metadata = AudioMetadata
    /\ frame_idx = 0
    /\ result = NoResult
    /\ reader_calls = 0
    /\ state = State_new(DefaultConfig)
    /\ tasks = {}
    /\ inbox = None
    /\ issued = 0
    /\ applied = 0
    /\ screen = first_view(State_new(DefaultConfig))
    /\ config_file = DefaultConfig
    /\ cover_cache = {}

\* mod.rs:75-77, imp.rs:7-10: a call with a path; its locals do not exist
\* yet. It is the first parse of a run of the application.
parse_id3 ==
    /\ pc = "idle"
    /\ inbox = None
    /\ state.metadata = None /\ state.error = None
    /\ \E p \in Paths, e \in Entries :
          /\ path' = p
          /\ entry' = e
    /\ pc' = "exists"
    /\ tag' = <<>>
    /\ metadata' = AudioMetadata
    /\ frame_idx' = 0
    /\ result' = NoResult
    /\ reader_calls' = 0
    /\ UNCHANGED <<inbox, app_vars>>

\* mod.rs:75-77, imp.rs:7-10: the same call, on a file of the lookup inputs
parse_id3_lookup ==
    /\ pc = "idle"
    /\ inbox = None
    /\ state.metadata = None /\ state.error = None
    /\ \E e \in LookupEntries :
          /\ path' = "song.mp3"
          /\ entry' = e
    /\ pc' = "exists"
    /\ tag' = <<>>
    /\ metadata' = AudioMetadata
    /\ frame_idx' = 0
    /\ result' = NoResult
    /\ reader_calls' = 0
    /\ UNCHANGED <<inbox, app_vars>>

\* mod.rs:75-77, imp.rs:7-10: the same call, on a file of the numeric inputs
parse_id3_numeric ==
    /\ pc = "idle"
    /\ inbox = None
    /\ state.metadata = None /\ state.error = None
    /\ \E e \in NumericEntries :
          /\ path' = "song.mp3"
          /\ entry' = e
    /\ pc' = "exists"
    /\ tag' = <<>>
    /\ metadata' = AudioMetadata
    /\ frame_idx' = 0
    /\ result' = NoResult
    /\ reader_calls' = 0
    /\ UNCHANGED <<inbox, app_vars>>

\* mod.rs:75-77, imp.rs:7-10: the same call, on a file of the cover inputs
parse_id3_cover ==
    /\ pc = "idle"
    /\ inbox = None
    /\ state.metadata = None /\ state.error = None
    /\ \E e \in CoverEntries :
          /\ path' = "song.mp3"
          /\ entry' = e
    /\ pc' = "exists"
    /\ tag' = <<>>
    /\ metadata' = AudioMetadata
    /\ frame_idx' = 0
    /\ result' = NoResult
    /\ reader_calls' = 0
    /\ UNCHANGED <<inbox, app_vars>>

\* mod.rs:75-77, imp.rs:7-10: the same call, on the termination inputs
parse_id3_walk ==
    /\ pc = "idle"
    /\ inbox = None
    /\ state.metadata = None /\ state.error = None
    /\ \E e \in WalkEntries :
          /\ path' = "song.mp3"
          /\ entry' = e
    /\ pc' = "exists"
    /\ tag' = <<>>
    /\ metadata' = AudioMetadata
    /\ frame_idx' = 0
    /\ result' = NoResult
    /\ reader_calls' = 0
    /\ UNCHANGED <<inbox, app_vars>>

\* imp.rs:12-16
CheckExists ==
    /\ pc = "exists"
    /\ IF ~exists(entry)
       THEN /\ result' = Err(FileNotFound)
            /\ pc' = "done"
       ELSE /\ result' = result
            /\ pc' = "read"
    /\ UNCHANGED <<path, entry, tag, metadata, frame_idx, reader_calls>>
    /\ UNCHANGED <<inbox, app_vars>>

\* imp.rs:19-32
ReadTag ==
    /\ pc = "read"
    /\ reader_calls' = reader_calls + 1
    /\ LET r == read_from_path(entry)
       IN  IF r.ok
           THEN /\ tag' = r.value
                /\ pc' = "extract"
                /\ result' = result
           ELSE /\ result' = Err(read_error_to_parse_error(r.error))
                /\ pc' = "done"
                /\ tag' = tag
    /\ UNCHANGED <<path, entry, metadata, frame_idx>>
    /\ UNCHANGED <<inbox, app_vars>>

\* imp.rs:34-192
ExtractNamed ==
    /\ pc = "extract"
    /\ metadata' = extract_named(tag)
    /\ frame_idx' = 1
    /\ pc' = "custom"
    /\ UNCHANGED <<path, entry, tag, result, reader_calls>>
    /\ UNCHANGED <<inbox, app_vars>>

\* imp.rs:195-203: one iteration of `for frame in tag.frames()`
CustomFieldStep ==
    /\ pc = "custom"
    /\ frame_idx <= Len(tag)
    /\ metadata' = [metadata EXCEPT
          !.custom_fields = @ \o custom_entries(tag[frame_idx])]
    /\ frame_idx' = frame_idx + 1
    /\ UNCHANGED <<pc, path, entry, tag, result, reader_calls>>
    /\ UNCHANGED <<inbox, app_vars>>

\* imp.rs:205-208: the loop is exhausted
Return ==
    /\ pc = "custom"
    /\ frames_exhausted(frame_idx, tag)
    /\ result' = return_value(metadata)
    /\ pc' = "done"
    /\ UNCHANGED <<path, entry, tag, metadata, frame_idx, reader_calls>>
    /\ UNCHANGED <<inbox, app_vars>>

\* app.rs:459-461 and 107, 119: the task takes the returned value and wraps
\* it in Message::MetadataParsed; the call's locals are dropped
parse_file_async ==
    /\ pc = "done"
    /\ pc' = "idle"
    /\ path' = ""
    /\ entry' = [kind |-> "missing"]
    /\ tag' = <<>>
    /\ metadata' = AudioMetadata
    /\ frame_idx' = 0
    /\ result' = NoResult
    /\ reader_calls' = 0
    /\ inbox' = Some([result |-> result, task |-> 0])
    /\ UNCHANGED app_vars

\* app.rs:126-141: update() handles the MetadataParsed message
MetadataParsed ==
    /\ inbox.some
    /\ state' = on_MetadataParsed(state, inbox.val.result)
    /\ applied' = inbox.val.task
    /\ inbox' = None
    /\ screen' = Stale
    /\ UNCHANGED <<parser_vars, tasks, issued, config_file, cover_cache>>

\* app.rs:170-318: the runtime calls view() on the updated state
view ==
    /\ screen = Stale
    /\ \E now \in clock_readings(state) :
       \E outcome \in write_attempts(state, cover_cache, now) :
          /\ screen' = view_at(state, cover_cache, now, outcome)
          /\ cover_cache' = view_cache(state, cover_cache, now, outcome)
    /\ UNCHANGED <<parser_vars, state, tasks, inbox, issued, applied, config_file>>

\* main.rs:16-18: the application is closed and started again, on a
\* temporary directory that has been cleared in between
main ==
    /\ pc = "idle"
    /\ inbox = None
    /\ tasks = {}
    /\ state' = State_new(load_config(config_file))
    /\ issued' = 0
    /\ applied' = 0
    /\ screen' = first_view(State_new(load_config(config_file)))
    /\ cover_cache' = {}
    /\ UNCHANGED <<parser_vars, tasks, inbox, config_file>>

Next ==
    \/ parse_id3
    \/ parse_file_async
    \/ CheckExists
    \/ ReadTag
    \/ ExtractNamed
    \/ CustomFieldStep
    \/ Return
    \/ MetadataParsed
    \/ view
    \/ main

Spec == Init /\ [][Next]_vars

\* the same program, called on the lookup inputs
NextLookup ==
    \/ parse_id3_lookup
    \/ parse_file_async
    \/ CheckExists
    \/ ReadTag
    \/ ExtractNamed
    \/ CustomFieldStep
    \/ Return
    \/ MetadataParsed
    \/ view
    \/ main

SpecLookup == Init /\ [][NextLookup]_vars

\* the same program, called on the cover inputs
NextCover ==
    \/ parse_id3_cover
    \/ parse_file_async
    \/ CheckExists
    \/ ReadTag
    \/ ExtractNamed
    \/ CustomFieldStep
    \/ Return
    \/ MetadataParsed
    \/ view
    \/ main

SpecCover == Init /\ [][NextCover]_vars

\* the same program, called on the numeric inputs
NextNumeric ==
    \/ parse_id3_numeric
    \/ parse_file_async
    \/ CheckExists
    \/ ReadTag
    \/ ExtractNamed
    \/ CustomFieldStep
    \/ Return
    \/ MetadataParsed
    \/ view
    \/ main

SpecNumeric == Init /\ [][NextNumeric]_vars

\* the same program, called on the termination inputs
NextWalk ==
    \/ parse_id3_walk
    \/ parse_file_async
    \/ CheckExists
    \/ ReadTag
    \/ ExtractNamed
    \/ CustomFieldStep
    \/ Return
    \/ MetadataParsed
    \/ view
    \/ main

\* parse_id3_impl is straight-line code: a call that has started takes each
\* of its steps
SpecLive ==
    /\ Init
    /\ [][NextWalk]_vars
    /\ WF_vars(CheckExists)
    /\ WF_vars(ReadTag)
    /\ WF_vars(ExtractNamed)
    /\ WF_vars(CustomFieldStep)
    /\ WF_vars(Return)

-----------------------------------------------------------------------------
(* The application: files are chosen, parsed by tasks of the runtime, and
   the results come back as messages *)

\* the files the user can choose
PathNames == << "a.mp3", "b.mp3", "c.mp3", "d.mp3", "e.mp3", "f.mp3" >>

AppPaths == {PathNames[i] : i \in 1..Len(PathNames)}

\* how many parse tasks one run of the application starts
MaxParses == 2

\* what each of the files holds: two tagged files with the same title and
\* artist and different covers, an untagged file, an unreadable file, a
\* file with one frame, and files with an empty tag
FileAt(p) ==
    CASE p = "a.mp3" ->
           [kind |-> "file", content |-> [type |-> "tagged", frames |->
              << Frame("TIT2", Text(<<"S", "o", "n", "g">>)),
                 Frame("TPE1", Text(<<"A", "r", "t", "i", "s", "t">>)),
                 Frame("APIC", Picture("image/png", "CoverFront", <<137, 80>>)) >>]]
      [] p = "b.mp3" ->
           [kind |-> "file", content |-> [type |-> "tagged", frames |->
              << Frame("TIT2", Text(<<"S", "o", "n", "g">>)),
                 Frame("TPE1", Text(<<"A", "r", "t", "i", "s", "t">>)),
                 Frame("APIC", Picture("image/png", "CoverFront", <<1, 2>>)) >>]]
      [] p = "c.mp3" -> [kind |-> "file", content |-> [type |-> "untagged"]]
      [] p = "d.mp3" ->
           [kind |-> "file", content |-> [type |-> "unreadable",
              error |-> ReadError("IO", "Permission denied (os error 13)")]]
      [] p = "e.mp3" ->
           [kind |-> "file", content |-> [type |-> "tagged", frames |->
              << Frame("TCOM", Text(<<"B", "a", "c", "h">>)) >>]]
      [] OTHER -> [kind |-> "file", content |-> [type |-> "tagged", frames |-> <<>>]]

\* the configurations found on disk at start: the default theme and zoom,
\* and a list of recent files, all existing, of any length up to six
LoadedConfigs ==
    { [DefaultConfig EXCEPT !.recent_files = SubSeq(PathNames, 1, n)] :
        n \in 0..Len(PathNames) }

\* app.rs:26-42: the application starts on a stored configuration
InitApp ==
    /\ pc = "idle"
    /\ path = ""
    /\ entry = [kind |-> "missing"]
    /\ tag = <<>>
    /\ metadata = AudioMetadata
    /\ frame_idx = 0
    /\ result = NoResult
    /\ reader_calls = 0
    /\ config_file \in LoadedConfigs
    /\ state = State_new(load_config(config_file))
    /\ tasks = {}
    /\ inbox = None
    /\ issued = 0
    /\ applied = 0
    /\ screen = first_view(state)
    /\ cover_cache = {}

DialogTask == [kind |-> "dialog"]

ParseTask(id, p) == [kind |-> "parse", id |-> id, path |-> p]

ParseTasks == {t \in tasks : t.kind = "parse"}

\* app.rs:97-99: Task::perform(open_file_dialog(), Message::FileSelected)
OpenFileDialog ==
    /\ DialogTask \notin tasks
    /\ tasks' = tasks \cup {DialogTask}
    /\ screen' = Stale
    /\ UNCHANGED <<parser_vars, state, inbox, issued, applied, config_file, cover_cache>>

\* app.rs:100-107: FileSelected(Some(path)): the file becomes the current
\* one and the head of the recent files, and a parse task is started
FileSelectedSome(p) ==
    /\ DialogTask \in tasks
    /\ state' = on_file_chosen(state, p)
    /\ config_file' = save_recent_files(config_file, state'.recent_files)
    /\ tasks' = (tasks \ {DialogTask}) \cup {ParseTask(issued + 1, p)}
    /\ issued' = issued + 1
    /\ screen' = Stale
    /\ UNCHANGED <<parser_vars, inbox, applied, cover_cache>>

\* app.rs:108-110: FileSelected(None): the dialog was cancelled
FileSelectedNone ==
    /\ DialogTask \in tasks
    /\ tasks' = tasks \ {DialogTask}
    /\ screen' = Stale
    /\ UNCHANGED <<parser_vars, state, config_file, issued, inbox, applied, cover_cache>>

\* app.rs:100-110: the dialog has returned, with a file or without, in a
\* run that starts at most cap parse tasks
FileSelectedWithin(cap) ==
    \/ /\ issued < cap
       /\ \E p \in AppPaths : FileSelectedSome(p)
    \/ FileSelectedNone

FileSelected == FileSelectedWithin(MaxParses)

\* app.rs:112-119: SelectRecentFile(path), the file is still there
SelectRecentFileExists(p) ==
    /\ \E i \in 1..Len(state.recent_files) : state.recent_files[i] = p
    /\ state' = on_file_chosen(state, p)
    /\ config_file' = save_recent_files(config_file, state'.recent_files)
    /\ tasks' = tasks \cup {ParseTask(issued + 1, p)}
    /\ issued' = issued + 1
    /\ screen' = Stale
    /\ UNCHANGED <<parser_vars, inbox, applied, cover_cache>>

\* app.rs:120-124: SelectRecentFile(path), the file is gone
SelectRecentFileGone(p) ==
    /\ \E i \in 1..Len(state.recent_files) : state.recent_files[i] = p
    /\ state' = on_recent_file_gone(state, p)
    /\ config_file' = save_recent_files(config_file, state'.recent_files)
    /\ screen' = Stale
    /\ UNCHANGED <<parser_vars, tasks, issued, inbox, applied, cover_cache>>

\* app.rs:111-125: a button of the recent-files list is pressed; the file
\* is still there or not
SelectRecentFileWithin(cap) ==
    \/ /\ issued < cap
       /\ \E p \in AppPaths : SelectRecentFileExists(p)
    \/ \E p \in AppPaths : SelectRecentFileGone(p)

SelectRecentFile == SelectRecentFileWithin(MaxParses)

\* app.rs:459-461: a parse task, any of those in flight, finishes and hands
\* its result over as a MetadataParsed message; the file it was started for
\* is as it was or gone
parse_file_async_task ==
    /\ inbox = None
    /\ \E t \in ParseTasks :
          /\ \E e \in {FileAt(t.path), [kind |-> "missing"]} :
                inbox' = Some([result |-> parse_id3_impl(e), task |-> t.id])
          /\ tasks' = tasks \ {t}
    /\ UNCHANGED <<parser_vars, state, issued, applied, screen, config_file, cover_cache>>

\* app.rs:142-145
ToggleSettings ==
    /\ state' = [state EXCEPT !.settings_open = ~@]
    /\ screen' = Stale
    /\ UNCHANGED <<parser_vars, tasks, inbox, issued, applied, config_file, cover_cache>>

\* app.rs:146-151
ThemeChanged ==
    /\ \E theme \in {"Dark", "Light"} :
          state' = [state EXCEPT !.theme = theme]
    /\ config_file' = save_settings(config_file, state')
    /\ screen' = Stale
    /\ UNCHANGED <<parser_vars, tasks, inbox, issued, applied, cover_cache>>

\* app.rs:152-158: (zoom + 0.1).min(2.0)
ZoomIncrease ==
    /\ state' = [state EXCEPT !.zoom = IF @ + 1 < MaxZoom THEN @ + 1 ELSE MaxZoom]
    /\ config_file' = save_settings(config_file, state')
    /\ screen' = Stale
    /\ UNCHANGED <<parser_vars, tasks, inbox, issued, applied, cover_cache>>

\* app.rs:159-165: (zoom - 0.1).max(0.5)
ZoomDecrease ==
    /\ state' = [state EXCEPT !.zoom = IF @ - 1 > MinZoom THEN @ - 1 ELSE MinZoom]
    /\ config_file' = save_settings(config_file, state')
    /\ screen' = Stale
    /\ UNCHANGED <<parser_vars, tasks, inbox, issued, applied, cover_cache>>

\* the messages about files, and the parse tasks they start
NextApp ==
    \/ OpenFileDialog
    \/ FileSelected
    \/ SelectRecentFile
    \/ parse_file_async_task
    \/ MetadataParsed
    \/ view

SpecApp == InitApp /\ [][NextApp]_vars

\* the messages of the settings overlay
NextSettings ==
    \/ ToggleSettings
    \/ ThemeChanged
    \/ ZoomIncrease
    \/ ZoomDecrease
    \/ view

SpecSettings == InitApp /\ [][NextSettings]_vars

\* how many parse tasks a run starts when the recent-files list is examined
MaxSelections == 1

\* the same messages about files, in a run that starts fewer parse tasks
NextRecent ==
    \/ OpenFileDialog
    \/ FileSelectedWithin(MaxSelections)
    \/ SelectRecentFileWithin(MaxSelections)
    \/ parse_file_async_task
    \/ MetadataParsed
    \/ view

SpecRecent == InitApp /\ [][NextRecent]_vars

-----------------------------------------------------------------------------
(* What the call was given, read off the input alone *)

Missing == entry.kind = "missing"
Directory == entry.kind = "dir"
Untagged == entry.kind = "file" /\ entry.content.type = "untagged"
Unreadable == entry.kind = "file" /\ entry.content.type = "unreadable"
Tagged == entry.kind = "file" /\ entry.content.type = "tagged"
Called == pc # "idle"
Done == pc = "done"

-----------------------------------------------------------------------------
(* Claims about the tag locator *)

\* C1: for a nonexistent path the call returns FileNotFound, and at no point
\* of that call has the tag reader been invoked: the call never gets past the
\* existence check.
C1_MissingPathNeverRead ==
    (Called /\ Missing) =>
        /\ reader_calls = 0
        /\ pc \in {"exists", "done"}
        /\ Done => result = Err(FileNotFound)

C1_Witness ==
    Done /\ Missing /\ result = Err(FileNotFound) /\ reader_calls = 0

\* C2 as stated: every path that is not an existing regular file, a
\* directory included, yields FileNotFound with no read of the file.
C2_NonRegularIsFileNotFound ==
    (Done /\ entry.kind # "file") =>
        (result = Err(FileNotFound) /\ reader_calls = 0)

\* C2 amended: FileNotFound is returned exactly for a path that does not
\* exist, and then the reader has not run; a path that exists, a directory
\* included, passes the check and is handed to the reader once.
C2_FileNotFoundIffMissing ==
    Done =>
        /\ (result = Err(FileNotFound)) <=> Missing
        /\ Missing => reader_calls = 0
        /\ ~Missing => reader_calls = 1

C2_Witness ==
    /\ Done /\ Directory /\ reader_calls = 1
    /\ ~result.ok /\ result.error.variant = "IoError"

\* C3: for an existing file without an ID3v2 header the call returns
\* NoId3Tag; it never returns InvalidFormat, IoError or a record, and the
\* record is never touched.
C3_UntaggedIsNoId3Tag ==
    (Called /\ Untagged) =>
        /\ pc \in {"exists", "read", "done"}
        /\ metadata = AudioMetadata
        /\ Done => result = Err(NoId3Tag)

C3_Witness ==
    Done /\ Untagged /\ result = Err(NoId3Tag) /\ reader_calls = 1

\* C4: for an existing path, a reader failure other than "no tag" returns
\* IoError carrying the reader's description of the failure; no record and
\* no InvalidFormat.
C4_ReadFailureIsIoError ==
    (Called /\ (Unreadable \/ Directory)) =>
        /\ pc \in {"exists", "read", "done"}
        /\ metadata = AudioMetadata
        /\ Done =>
            /\ ~result.ok
            /\ result.error.variant = "IoError"
            /\ Unreadable =>
                 result.error.detail =
                    (IF entry.content.error.description = ""
                     THEN entry.content.error.kind
                     ELSE entry.content.error.kind \o ": "
                            \o entry.content.error.description)

C4_Witness ==
    /\ Done /\ Unreadable
    /\ entry.content.error.kind = "Parsing"
    /\ result = Err(IoError("Parsing: Insufficient data to decode bytes"))

\* C5: once the tag has been read, the call returns Ok(record) whatever the
\* frames are; no step of the mapper produces an error.
C5_TaggedIsOk ==
    (Called /\ Tagged) =>
        /\ ~Done => result = NoResult
        /\ Done => (result.ok /\ result.value = metadata)

C5_Witness ==
    /\ Done /\ Tagged /\ result.ok
    /\ \E i \in 1..Len(tag) : tag[i].id = "TBPM"
    /\ \E i \in 1..Len(tag) : tag[i].id = "PRIV"
    /\ ~result.value.bpm.some
    /\ result.value.custom_fields = <<>>

-----------------------------------------------------------------------------
(* Claims about the field mapper *)

Returned == Done /\ Tagged /\ result.ok

custom_fields == result.value.custom_fields

Hello == <<"H", "e", "l", "l", "o">>

\* positions of the frames the loop turns into custom fields: identifier
\* outside the skip list, content decoded as text
CustomPositions == {i \in 1..Len(tag) :
    tag[i].id \notin AlreadyExtracted /\ tag[i].content.type = "Text"}

\* C7 as stated: no entry of custom_fields carries the identifier of a frame
\* a named attribute is read from.
C7_CustomFieldsExcludeNamed ==
    Returned =>
        \A i \in 1..Len(custom_fields) :
            custom_fields[i][1] \notin NamedAttributeSources

\* C8 as stated: a tag whose only TXXX frame carries the text "Hello" yields
\* exactly one entry ("TXXX", "Hello"), and the entries of custom_fields are
\* in the relative order of their frames.
C8_TxxxHelloAndOrder ==
    Returned =>
        /\ ( /\ Cardinality({i \in 1..Len(tag) : tag[i].id = "TXXX"}) = 1
             /\ \E i \in 1..Len(tag) :
                    /\ tag[i].id = "TXXX"
                    /\ tag[i].content.type = "ExtendedText"
                    /\ tag[i].content.value = Hello )
           => Cardinality({k \in 1..Len(custom_fields) :
                              custom_fields[k] = <<"TXXX", Hello>>}) = 1
        /\ \E g \in [1..Len(custom_fields) -> 1..Len(tag)] :
              /\ \A a, b \in 1..Len(custom_fields) : a < b => g[a] < g[b]
              /\ \A k \in 1..Len(custom_fields) :
                    custom_fields[k][1] = tag[g[k]].id

\* The second half of C8 alone: the entries of custom_fields are the frames at
\* CustomPositions, each once, in frame order, duplicates included.
CustomFieldsInFrameOrder ==
    Returned =>
        \E g \in [1..Len(custom_fields) -> 1..Len(tag)] :
            /\ \A a, b \in 1..Len(custom_fields) : a < b => g[a] < g[b]
            /\ {g[k] : k \in 1..Len(custom_fields)} = CustomPositions
            /\ \A k \in 1..Len(custom_fields) :
                  custom_fields[k] = <<tag[g[k]].id, tag[g[k]].content.text>>

\* C9 as stated: no entry of custom_fields has an empty text value.
C9_NoEmptyCustomText ==
    Returned =>
        \A k \in 1..Len(custom_fields) : custom_fields[k][2] # <<>>

\* C9 amended: a frame outside the skip list is appended exactly when its
\* content decodes as text, empty text included; frames without a text
\* decoding are dropped.
C9_CustomIffText ==
    Returned =>
        /\ Len(custom_fields) = Cardinality(CustomPositions)
        /\ \A i \in CustomPositions :
              \E k \in 1..Len(custom_fields) :
                  custom_fields[k] = <<tag[i].id, tag[i].content.text>>
        /\ \A k \in 1..Len(custom_fields) :
              \E i \in CustomPositions :
                  custom_fields[k] = <<tag[i].id, tag[i].content.text>>

C9_Witness ==
    /\ Returned
    /\ \E i \in 1..Len(tag) : tag[i] = Frame("TKEY", Text(<<>>))
    /\ \E i \in 1..Len(tag) : tag[i].id = "PRIV"
    /\ custom_fields = << <<"TKEY", <<>> >> >>

\* C10: with two or more COMM frames the comment is the text of the first
\* COMM frame in tag order, whatever its language and description.
C10_FirstCommentOnly ==
    Returned =>
        LET comm == {i \in 1..Len(tag) : tag[i].id = "COMM"}
        IN  Cardinality(comm) >= 2 =>
              \E i \in comm :
                  /\ \A j \in comm : i <= j
                  /\ result.value.comment = Some(tag[i].content.text)

C10_Witness ==
    /\ Returned
    /\ Len(tag) = 3
    /\ tag[1].id = "TIT2"
    /\ tag[2] = Frame("COMM", Comment("spa", <<"n">>, <<"t", "w", "o">>))
    /\ tag[3] = Frame("COMM", Comment("eng", <<>>, <<"o", "n", "e">>))
    /\ result.value.comment = Some(<<"t", "w", "o">>)

-----------------------------------------------------------------------------
(* Claims about the lookups by identifier *)

\* the positions of the frames with an identifier, and the first of them
PositionsOf(id) == {i \in 1..Len(tag) : tag[i].id = id}
FirstOf(id) == tag[CHOOSE i \in PositionsOf(id) : \A j \in PositionsOf(id) : i <= j]

\* what an attribute is when it is taken from a frame: the frame's text, read
\* as an unsigned integer for the two numeric attributes
TakenFrom(id, frame) ==
    IF id \in {"TORY", "TBPM"}
    THEN ParseU32(frame.content.text)
    ELSE Some(frame.content.text)

FirstOfDuplicatesWins(ids) ==
    Returned =>
        \A k \in 1..Len(ExplicitLookups) :
            LET id == ExplicitLookups[k][1]
                field == ExplicitLookups[k][2]
            IN  (id \in ids /\ Cardinality(PositionsOf(id)) >= 2) =>
                  /\ result.value[field] = TakenFrom(id, FirstOf(id))
                  /\ \A j \in 1..Len(custom_fields) : custom_fields[j][1] # id

\* C11 as stated: for every identifier looked up by name, USLT included, a
\* tag with several frames of that identifier gives the attribute taken from
\* the first of them, and none of them reaches custom_fields.
C11_FirstOfDuplicatesWins == FirstOfDuplicatesWins(ExplicitIds)

\* the same for every identifier looked up by name but USLT
TextLookupsTakeFirstDuplicate == FirstOfDuplicatesWins(ExplicitIds \ {"USLT"})

\* lyrics is read with content().text(), which a lyrics payload does not
\* answer: whatever USLT frames the tag holds, lyrics stays None
LyricsNeverFilled == Returned => result.value.lyrics = None

TextLookupsWitness ==
    /\ Returned
    /\ tag = << Frame("TPUB", Text(<<"D", "G">>)), Frame("TPUB", Text(<<"E", "M", "I">>)) >>
    /\ result.value.publisher = Some(<<"D", "G">>)
    /\ custom_fields = <<>>

\* the tag with its first frame of an identifier taken out
WithoutFirst(id) ==
    LET first == CHOOSE i \in PositionsOf(id) : \A j \in PositionsOf(id) : i <= j
    IN  SubSeq(tag, 1, first - 1) \o SubSeq(tag, first + 1, Len(tag))

\* the texts of the lookup inputs that are no unsigned 32-bit integer
\* ("4294967296" is 2^32), and the value of those that are
NotAnInteger ==
    { <<"f", "a", "s", "t">>, <<"'", "9", "9">>,
      <<"4", "2", "9", "4", "9", "6", "7", "2", "9", "6">> }
IntegerTexts ==
    { <<<<"1", "2", "0">>, U32(0, 120)>>, <<<<"1", "9", "9", "9">>, U32(0, 1999)>> }

\* C12: when the text of the TBPM (resp. TORY) frame that is looked up is no
\* unsigned integer, bpm (resp. original_year) is None, the call still
\* returns a record, and every other attribute (custom_fields included) is
\* what it is for the tag without that frame; when the text is an integer
\* the attribute is Some of it.
C12_UnparsedNumberIsAbsent ==
    (Done /\ Tagged) =>
        /\ result.ok
        /\ \A lookup \in {<<"TBPM", "bpm">>, <<"TORY", "original_year">>} :
              LET id == lookup[1]
                  field == lookup[2]
              IN  PositionsOf(id) # {} =>
                    /\ FirstOf(id).content.text \in NotAnInteger =>
                          /\ result.value[field] = None
                          /\ \A other \in DOMAIN AudioMetadata \ {field} :
                                result.value[other] = record_of(WithoutFirst(id))[other]
                    /\ \A n \in IntegerTexts :
                          FirstOf(id).content.text = n[1] =>
                              result.value[field] = Some(n[2])
                    /\ \/ FirstOf(id).content.text \in NotAnInteger
                       \/ \E n \in IntegerTexts : FirstOf(id).content.text = n[1]

C12_Witness ==
    /\ Returned
    /\ tag = << Frame("TBPM", Text(<<"f", "a", "s", "t">>)),
                Frame("TORY", Text(<<"1", "9", "9", "9">>)) >>
    /\ result.value.bpm = None
    /\ result.value.original_year = Some(U32(0, 1999))

-----------------------------------------------------------------------------
(* Claims about the record as a whole *)

Song == <<"S", "o", "n", "g">>
Artist == <<"A", "r", "t", "i", "s", "t">>

\* C13: for a tag whose only frames are TIT2 "Song" and TPE1 "Artist", in
\* either order, the record is the default record with title Some("Song")
\* and artist Some("Artist"): every other attribute None, custom_fields
\* empty.
C13_MinimalTag ==
    ( /\ Returned
      /\ Len(tag) = 2
      /\ {tag[1], tag[2]} = {Frame("TIT2", Text(Song)), Frame("TPE1", Text(Artist))} )
    => result.value =
         [ title |-> Some(Song), artist |-> Some(Artist), album |-> None,
           year |-> None, genre |-> None, track |-> None, disc |-> None,
           album_artist |-> None, composer |-> None, comment |-> None,
           duration |-> None, publisher |-> None, encoder |-> None,
           language |-> None, copyright |-> None, original_artist |-> None,
           original_album |-> None, original_year |-> None, bpm |-> None,
           isrc |-> None, lyrics |-> None, conductor |-> None,
           remixer |-> None, producer |-> None, grouping |-> None,
           subtitle |-> None, date |-> None, cover_art |-> None,
           cover_art_format |-> None, custom_fields |-> <<>> ]

C13_Witness ==
    /\ Returned
    /\ tag = << Frame("TIT2", Text(Song)), Frame("TPE1", Text(Artist)) >>
    /\ result.value.title = Some(Song)
    /\ result.value.artist = Some(Artist)

\* C14: in every returned record cover_art and cover_art_format are both
\* Some or both None; they are None when the tag has no picture frame, and
\* otherwise the bytes and the MIME type of the first APIC frame in tag
\* order.
C14_CoverArtCoPresent ==
    Returned =>
        LET apic == {i \in 1..Len(tag) : tag[i].id = "APIC"}
            art == result.value.cover_art
            format == result.value.cover_art_format
        IN  /\ art.some <=> format.some
            /\ apic = {} => (art = None /\ format = None)
            /\ apic # {} =>
                  \E i \in apic :
                      /\ \A j \in apic : i <= j
                      /\ art = Some(tag[i].content.data)
                      /\ format = Some(tag[i].content.mime_type)

C14_Witness ==
    /\ Returned
    /\ Len(tag) = 3
    /\ tag[1] = Frame("APIC", Picture("image/jpeg", "CoverBack", <<255, 216>>))
    /\ tag[3] = Frame("APIC", Picture("image/png", "CoverFront", <<137, 80>>))
    /\ result.value.cover_art = Some(<<255, 216>>)
    /\ result.value.cover_art_format = Some("image/jpeg")

-----------------------------------------------------------------------------
(* Claims about empty and absent text *)

\* the identifiers looked up by name whose attribute is the frame's text as
\* it stands
TextLookups ==
    {k \in 1..Len(ExplicitLookups) : ExplicitLookups[k][1] \notin {"TORY", "TBPM", "USLT"}}

\* the screen shows the current state's metadata
Shown == screen # Stale /\ state.metadata.some /\ screen.metadata.some

RowsLabelled(label) ==
    {i \in 1..Len(screen.metadata.val.rows) : screen.metadata.val.rows[i][1] = label}

\* C15: the decoder keeps empty and absent apart: for a text attribute
\* looked up by name, no frame gives None and a first frame with empty text
\* gives Some(""); the display hides both: a text attribute that is None or
\* Some("") has no row on the screen, any other has exactly one row with its
\* text.
C15_EmptyKeptThenHidden ==
    /\ Returned =>
          \A k \in TextLookups :
              LET id == ExplicitLookups[k][1]
                  value == result.value[ExplicitLookups[k][2]]
              IN  /\ PositionsOf(id) = {} => value = None
                  /\ PositionsOf(id) # {} => value = Some(FirstOf(id).content.text)
                  /\ (PositionsOf(id) # {} /\ FirstOf(id).content.text = <<>>)
                        => (value.some /\ value # None /\ Len(value.val) = 0)
    /\ Shown =>
          \A n \in 1..Len(FieldRows) :
              LET label == FieldRows[n][1]
                  value == state.metadata.val[FieldRows[n][3]]
                  rows == screen.metadata.val.rows
              IN  FieldRows[n][2] = "string" =>
                    /\ (value = None \/ value = Some(<<>>)) => RowsLabelled(label) = {}
                    /\ (value.some /\ value.val # <<>>) =>
                          /\ Cardinality(RowsLabelled(label)) = 1
                          /\ \A i \in RowsLabelled(label) : rows[i][2] = value.val

C15_Witness ==
    /\ Shown
    /\ state.metadata.val.composer = Some(<<>>)
    /\ state.metadata.val.publisher = None
    /\ RowsLabelled("Composer:") = {}
    /\ RowsLabelled("Publisher:") = {}

-----------------------------------------------------------------------------
(* Claims about the application *)

\* no parse is in flight and no result waits to be handled
Quiescent == ParseTasks = {} /\ inbox = None

\* C16 as stated: once every parse in flight has delivered its result, in
\* whatever order, the result update() handled last is that of the latest
\* selection, and the record on display is the one of the current file.
C16_LatestSelectionWins ==
    (Quiescent /\ issued > 0) =>
        /\ applied = issued
        /\ state.metadata.some =>
              state.metadata = Some(parse_id3_impl(FileAt(state.file_path.val)).value)

\* when the result handled last is the one of the latest selection, the
\* record on display is the one of the current file
LatestHandledLastShowsLatest ==
    (Quiescent /\ issued > 0 /\ applied = issued) =>
        /\ state.file_path.some
        /\ \/ state.metadata = None
           \/ state.metadata = Some(parse_id3_impl(FileAt(state.file_path.val)).value)

-----------------------------------------------------------------------------
(* Claims about the view *)

\* the extension the claim gives a MIME type
ClaimedExtension(format) ==
    CASE format = Some("image/jpeg") -> "jpg"
      [] format = Some("image/jpg") -> "jpg"
      [] format = Some("image/png") -> "png"
      [] format = Some("image/gif") -> "gif"
      [] format = Some("image/webp") -> "webp"
      [] OTHER -> "jpg"

\* C17: the extension of the cover file the view names is jpg for
\* image/jpeg and image/jpg, png for image/png, gif for image/gif, webp for
\* image/webp, and jpg for any other MIME type and for an absent one; the
\* view names a cover file exactly when the record has cover art.
C17_ExtensionFromMime ==
    /\ determine_image_extension(None) = "jpg"
    /\ Shown =>
          LET m == state.metadata.val
              cover == screen.metadata.val.cover
          IN  /\ cover.some <=> m.cover_art.some
              /\ cover.some => cover.val.extension = ClaimedExtension(m.cover_art_format)

C17_Witness ==
    /\ Shown
    /\ state.metadata.val.cover_art_format = Some("image/png")
    /\ screen.metadata.val.cover = Some([extension |-> "png"])

\* an unknown MIME type on display
C17_WitnessUnknown ==
    /\ Shown
    /\ state.metadata.val.cover_art_format = Some("image/bmp")
    /\ screen.metadata.val.cover = Some([extension |-> "jpg"])

-----------------------------------------------------------------------------
(* Claims about the error messages *)

\* the message the claim gives an error
ClaimedMessage(e) ==
    CASE e = FileNotFound -> "File not found"
      [] e = InvalidFormat -> "Invalid audio format"
      [] e = NoId3Tag -> "No ID3 tag found in file"
      [] e.variant = "IoError" -> "IO error: " \o e.detail

\* update() handles a MetadataParsed message that carries an error
HandlesError == inbox.some /\ ~inbox.val.result.ok /\ inbox' = None

\* C18: each of the four variants of ParseError formats to its fixed
\* message, IoError to "IO error: " followed by its detail, and whenever
\* update() handles MetadataParsed(Err(e)) the state's error is exactly the
\* message of e afterwards.
C18_ErrorMessages ==
    /\ \A e \in {FileNotFound, InvalidFormat, NoId3Tag, IoError("disk"), IoError("")} :
          fmt(e) = ClaimedMessage(e)
    /\ fmt(IoError("disk")) = "IO error: disk"
    /\ [][HandlesError =>
            state'.error = Some(ClaimedMessage(inbox.val.result.error))]_vars

C18_Witness ==
    /\ state.error = Some("IO error: IO: Permission denied (os error 13)")
    /\ state.metadata = None
    /\ applied = 0 /\ inbox = None /\ pc = "idle"

\* the two errors without a detail that a parse returns, on display
C18_WitnessNoTag == state.error = Some("No ID3 tag found in file") /\ inbox = None
C18_WitnessNotFound == state.error = Some("File not found") /\ inbox = None

-----------------------------------------------------------------------------
(* Claims about termination *)

\* C19: every call of parse_id3 that has started reaches its end with a
\* record or an error; on the way the loop over the frames only moves
\* forward, one frame at a time, and never past the end of the tag.
C19_Terminates ==
    /\ (Called /\ ~Done) ~> (Done /\ "ok" \in DOMAIN result)
    /\ [][(pc = "custom" /\ frame_idx' # frame_idx) =>
            (pc' = "custom" /\ frame_idx' = frame_idx + 1 /\ frame_idx <= Len(tag))]_vars
    /\ [](pc = "custom" => frame_idx \in 1..(Len(tag) + 1))

C19_Witness ==
    /\ Done /\ Tagged /\ result.ok
    /\ Len(tag) = MaxWalkFrames
    /\ frame_idx = Len(tag) + 1
    /\ Len(custom_fields) = MaxWalkFrames

-----------------------------------------------------------------------------
(* Claims about the recent files *)

\* C20 as stated: in every reachable state of the application, whatever
\* configuration it was started on, the recent-files list has at most 5
\* entries.
C20_AtMostFiveRecentFiles == Len(state.recent_files) <= 5

\* the list never grows past the longer of 5 and the length it was loaded
\* with, and it has at most 5 entries from the first file chosen on
RecentFilesCutOnAdd ==
    /\ state.file_path.some => Len(state.recent_files) <= 5
    /\ Len(state.recent_files) <= Len(PathNames)


-----------------------------------------------------------------------------
(* C21 *)

\* C21: SelectRecentFile(path) for a path that no longer exists sets the
\* error to "File no longer exists", removes the path from the recent
\* files and leaves the others in their order, starts no parse task, and
\* leaves file_path, metadata, theme, zoom and settings_open as they were
C21_VanishedRecentFile ==
    [][\A p \in AppPaths :
          SelectRecentFileGone(p) =>
             /\ state'.error = Some("File no longer exists")
             /\ \A i \in 1..Len(state'.recent_files) : state'.recent_files[i] # p
             /\ state'.recent_files = SelectSeq(state.recent_files, LAMBDA q : q # p)
             /\ tasks' = tasks
             /\ issued' = issued
             /\ inbox' = inbox
             /\ state'.file_path = state.file_path
             /\ state'.metadata = state.metadata
             /\ state'.theme = state.theme
             /\ state'.zoom = state.zoom
             /\ state'.settings_open = state.settings_open]_vars

\* a file was loaded and shown, and then its button in the recent files
\* was pressed after the file had vanished: the error is there, the path
\* has left the list, the current file and its metadata are still there
C21_Witness ==
    /\ state.error = Some("File no longer exists")
    /\ state.metadata.some
    /\ state.file_path.some
    /\ \A i \in 1..Len(state.recent_files) : state.recent_files[i] # state.file_path.val
    /\ tasks = {}


-----------------------------------------------------------------------------
(* C22 *)

\* no path occurs twice in the recent files
DuplicateFree(files) ==
    \A i, j \in 1..Len(files) : files[i] = files[j] => i = j

\* C22: after FileSelected(Some(p)), or SelectRecentFile(p) with p existing,
\* p is the first of the recent files and occurs there once, and the
\* entries after it are in the order they had before; the list, which is
\* duplicate-free at start, is duplicate-free after any sequence of messages
C22_ChosenFileMovesToFront ==
    /\ [](DuplicateFree(state.recent_files))
    /\ [][\A p \in AppPaths :
            (FileSelectedSome(p) \/ SelectRecentFileExists(p)) =>
               LET old == state.recent_files
                   new == state'.recent_files
               IN  /\ Len(new) >= 1
                   /\ new[1] = p
                   /\ Cardinality({i \in 1..Len(new) : new[i] = p}) = 1
                   /\ \A i, j \in 2..Len(new) :
                         i < j =>
                            \E a, b \in 1..Len(old) :
                               a < b /\ old[a] = new[i] /\ old[b] = new[j]]_vars

\* the third of the recent files was chosen: it is now the first, and the
\* two that were before it follow in their order
C22_Witness ==
    /\ state.file_path = Some("c.mp3")
    /\ Len(state.recent_files) >= 3
    /\ state.recent_files[1] = "c.mp3"
    /\ state.recent_files[2] = "a.mp3"
    /\ state.recent_files[3] = "b.mp3"


-----------------------------------------------------------------------------
(* C23 *)

\* C23: in every reachable state of the application the error and the
\* metadata are not both present, and no screen shows an error message
\* together with a metadata record
C23_ErrorExcludesMetadata ==
    /\ ~(state.error.some /\ state.metadata.some)
    /\ screen # Stale => ~(screen.error.some /\ screen.metadata.some)

\* the two are together only after a recent file was found gone: every
\* other message that sets one of them clears the other or leaves an
\* exclusive pair exclusive
ErrorBesideMetadataOnlyForVanishedFile ==
    state.error.some /\ state.metadata.some =>
        state.error = Some("File no longer exists")


-----------------------------------------------------------------------------
(* C24 *)

\* C24: whenever the view shows a cover image for the loaded metadata,
\* the bytes of the cache file on display are the metadata's cover_art,
\* whatever files were loaded before
C24_ShownCoverIsTheRecordsCover ==
    screen # Stale /\ state.metadata.some /\ screen.cover_image.some =>
        screen.cover_image.val.bytes = state.metadata.val.cover_art.val

\* b.mp3 is on display with the cover that a.mp3 left in the cache
CoverOfEarlierFileShown ==
    /\ screen # Stale
    /\ state.metadata.some
    /\ state.metadata.val.cover_art = Some(<<1, 2>>)
    /\ screen.cover_image.some
    /\ screen.cover_image.val.bytes = <<137, 80>>

\* a cover is taken from the cache only under the name computed for the
\* record on display, and the cache holds one file per name
CoverShownUnderItsName ==
    /\ \A f, g \in cover_cache : f.path = g.path => f = g
    /\ screen # Stale /\ state.metadata.some /\ screen.cover_image.some =>
          /\ state.metadata.val.cover_art.some
          /\ \E f \in cover_cache :
                /\ f.path = screen.cover_image.val.path
                /\ f.bytes = screen.cover_image.val.bytes
                /\ \E now \in clock_readings(state) :
                      f.path = cover_path(state.metadata.val, now)


-----------------------------------------------------------------------------
(* C25 *)

\* the u32 of the record is the number the i32 of the accessor is
SameNumber(unsigned, signed) == ~signed.neg /\ unsigned = signed.mag

\* C25: a numeric convenience attribute that is present in the record is
\* numerically the value its accessor returned: year the i32 of tag.year(),
\* track, disc and duration the u32 of tag.track(), tag.disc() and
\* tag.duration(); nothing is wrapped modulo 2^32
C25_NumericAttributesKeepValue ==
    Returned =>
        /\ result.value.year.some =>
              /\ tag_year(tag).some
              /\ SameNumber(result.value.year.val, tag_year(tag).val)
        /\ result.value.track.some => result.value.track = tag_track(tag)
        /\ result.value.disc.some => result.value.disc = tag_disc(tag)
        /\ result.value.duration.some => result.value.duration = tag_duration(tag)

\* the year -5 of the tag is the year 4294967291 of the record
NegativeYearWrapped ==
    /\ Returned
    /\ tag_year(tag) = Some(I32(TRUE, U32(0, 5)))
    /\ result.value.year = Some(U32(65535, 65531))

\* track, disc and duration are what their accessors returned, present or
\* absent, and so is a year that is not negative
OtherNumbersKept ==
    Returned =>
        /\ result.value.track = tag_track(tag)
        /\ result.value.disc = tag_disc(tag)
        /\ result.value.duration = tag_duration(tag)
        /\ result.value.year.some <=> tag_year(tag).some
        /\ tag_year(tag).some /\ ~tag_year(tag).val.neg =>
              SameNumber(result.value.year.val, tag_year(tag).val)

====
